---- MODULE Spec2Model ----
(***************************************************************************)
(* Click-analytics ingestion pipeline of GURLS-Backend                     *)
(* (internal/analytics/processor.go): the Processor with its job queue,    *)
(* its worker goroutines, the retry loop and the Start/Stop lifecycle, and  *)
(* the redirect handler that feeds it (internal/grpc/server/server.go,     *)
(* RedirectAndRecord).                                                     *)
(*                                                                         *)
(* Every exported method is executed by a caller goroutine and is split at *)
(* the points where other goroutines can interleave: the acquisition of    *)
(* p.mu, the test of p.started, cancel(), close(jobQueue) and the wait for *)
(* the workers.  A Go select is a nondeterministic choice among the cases  *)
(* that can proceed.  A run-time panic (send on or close of a closed       *)
(* channel, nil dereference) unwinds through the deferred unlock and is    *)
(* recorded in `panicked`; the call ends with the result "panic".           *)
(***************************************************************************)
EXTENDS Integers, Sequences, FiniteSets

\* ---- bounds of the model ------------------------------------------------
WorkerCount   == 2      \* ProcessorConfig.WorkerCount
BufferSize    == 2      \* ProcessorConfig.BufferSize (>= 1)
RetryAttempts == 2      \* ProcessorConfig.RetryAttempts
NumCallers    == 2      \* goroutines calling the exported methods
MaxCalls      == 4      \* Start/Stop/SubmitClick calls issued in one behaviour
RetryDelay    == 1      \* ProcessorConfig.RetryDelay, in seconds

Callers  == 1..NumCallers
Workers  == 0..(WorkerCount - 1)
Nil      == 0                       \* the nil *ClickData
Events   == 1..MaxCalls             \* non-nil *ClickData values
NoCaller == 0

VARIABLES
    started,     \* Processor.started
    jobQueue,    \* Processor.jobQueue: buffered elements, head first
    closed,      \* close(p.jobQueue) has been executed
    ctxDone,     \* p.ctx is cancelled (p.cancel() has been executed)
    mu,          \* Processor.mu: [w |-> writer or NoCaller, r |-> readers]
    wg,          \* Processor.wg counter
    wk,          \* worker goroutines: [pc, ev, attempt, waited, lastErr,
                 \*   deadline]
    pc,          \* position of each caller goroutine
    arg,         \* *ClickData argument of the caller's SubmitClick
    ret,         \* result of the call that returned last
    accepted,    \* events whose SubmitClick returned nil
    recorded,    \* events for which RecordClickAdvanced returned nil
    dropped,     \* events reported "failed after all retries"
    abandoned,   \* events given up in the backoff wait on shutdown
    calls,       \* Start/Stop/SubmitClick calls issued so far
    startOk,     \* Start() calls that returned nil
    stopBegun,   \* some Stop() has passed the started test
    stopOk,      \* some Stop() has returned nil
    stopTimedOut,\* some Stop() has returned the timeout error
    panicked,    \* a run-time panic has been raised
    rd,          \* RedirectAndRecord in progress in the caller: its position
    fallback,    \* synchronous RecordClickAdvanced calls made by the handler
    pred,        \* per event: the events already accepted when its call began
    clk,         \* one click followed through processClick, with its store calls
    stats        \* the map returned by the last GetStats()

aux  == <<pred, clk, stats>>
proc == <<started, jobQueue, closed, ctxDone, wg, wk>>
hist == <<accepted, recorded, dropped, abandoned, calls, startOk,
          stopBegun, stopOk, stopTimedOut, panicked, fallback, aux>>
vars == <<started, jobQueue, closed, ctxDone, mu, wg, wk, pc, arg, ret,
          accepted, recorded, dropped, abandoned, calls, startOk,
          stopBegun, stopOk, stopTimedOut, panicked, rd, fallback,
          pred, clk, stats>>

\* ---- counters kept finite -------------------------------------------------
MaxStartOk  == 2
Cap(n, m)   == IF n < m THEN n + 1 ELSE m

deadWorker == [pc |-> "dead", ev |-> Nil, attempt |-> 0,
               waited |-> 0, lastErr |-> "none", deadline |-> "none"]
idleWorker == [pc |-> "select", ev |-> Nil, attempt |-> 0,
               waited |-> 0, lastErr |-> "none", deadline |-> "none"]

\* ---- NewProcessor ---------------------------------------------------------
NoClick == [phase |-> "none"]
NoStats == [started |-> FALSE, queue_length |-> 0, queue_capacity |-> 0,
            worker_count |-> 0, retry_attempts |-> 0]

InitProcessor ==
    /\ started = FALSE
    /\ jobQueue = << >>
    /\ closed = FALSE
    /\ ctxDone = FALSE
    /\ mu = [w |-> NoCaller, r |-> {}]
    /\ wg = 0
    /\ wk = [i \in Workers |-> deadWorker]
    /\ pc = [c \in Callers |-> "idle"]
    /\ arg = [c \in Callers |-> Nil]
    /\ ret = "none"
    /\ accepted = {} /\ recorded = {} /\ dropped = {} /\ abandoned = {}
    /\ calls = 0 /\ startOk = 0
    /\ stopBegun = FALSE /\ stopOk = FALSE /\ stopTimedOut = FALSE
    /\ panicked = FALSE
    /\ rd = [c \in Callers |-> "none"]
    /\ fallback = {}
    /\ pred = [e \in Events |-> {}]
    /\ stats = NoStats

Init == InitProcessor /\ clk = NoClick

\* ---- sync.RWMutex ---------------------------------------------------------
CanLock_NoMutex(m) == TRUE
CanLock(m)  == m.w = NoCaller /\ m.r = {}
CanRLock(m) == m.w = NoCaller
Lock(c)     == [mu EXCEPT !.w = c]
Unlock(c)   == [mu EXCEPT !.w = IF mu.w = c THEN NoCaller ELSE mu.w]
RLock(c)    == [mu EXCEPT !.r = mu.r \cup {c}]
RUnlock(c)  == [mu EXCEPT !.r = mu.r \ {c}]

Return(c, r) == /\ pc' = [pc EXCEPT ![c] = "idle"]
                /\ ret' = r
                /\ arg' = [arg EXCEPT ![c] = Nil]
                /\ rd' = [rd EXCEPT ![c] = "none"]
Goto(c, l)   == /\ pc' = [pc EXCEPT ![c] = l]
                /\ UNCHANGED <<ret, arg, rd>>

\* ---- Start ----------------------------------------------------------------
CallStart(c) ==
    /\ pc[c] = "idle"
    /\ calls < MaxCalls
    /\ calls' = calls + 1
    /\ pc' = [pc EXCEPT ![c] = "start_lock"]
    /\ UNCHANGED <<proc, mu, arg, ret, accepted, recorded, dropped, abandoned,
                   startOk, stopBegun, stopOk, stopTimedOut, panicked,
                   rd, fallback, aux>>

StartAlready(s) == s

\* p.mu.Lock(); if p.started { return "processor already started" }
StartLock(c) ==
    /\ pc[c] = "start_lock"
    /\ CanLock(mu)
    /\ IF StartAlready(started)
         THEN /\ Return(c, "already_started")
              /\ UNCHANGED mu
         ELSE /\ Goto(c, "start_spawn")
              /\ mu' = Lock(c)
    /\ UNCHANGED <<proc, hist>>

\* the loop launching the workers; p.started = true; deferred Unlock
StartSpawn(c) ==
    /\ pc[c] = "start_spawn"
    /\ wk' = [i \in Workers |-> idleWorker]
    /\ wg' = wg + WorkerCount
    /\ started' = TRUE
    /\ startOk' = Cap(startOk, MaxStartOk)
    /\ mu' = Unlock(c)
    /\ Return(c, "ok")
    /\ UNCHANGED <<jobQueue, closed, ctxDone, accepted, recorded,
                   dropped, abandoned, calls, stopBegun, stopOk,
                   stopTimedOut, panicked, fallback, aux>>

\* ---- Stop -----------------------------------------------------------------
CallStop(c) ==
    /\ pc[c] = "idle"
    /\ calls < MaxCalls
    /\ calls' = calls + 1
    /\ pc' = [pc EXCEPT ![c] = "stop_lock"]
    /\ UNCHANGED <<proc, mu, arg, ret, accepted, recorded, dropped, abandoned,
                   startOk, stopBegun, stopOk, stopTimedOut, panicked,
                   rd, fallback, aux>>

StopNotStarted(s) == ~s

\* p.mu.Lock(); if !p.started { return "processor not started" }
StopLock(c) ==
    /\ pc[c] = "stop_lock"
    /\ CanLock(mu)
    /\ IF StopNotStarted(started)
         THEN /\ Return(c, "not_started")
              /\ UNCHANGED <<mu, stopBegun>>
         ELSE /\ Goto(c, "stop_cancel")
              /\ mu' = Lock(c)
              /\ stopBegun' = TRUE
    /\ UNCHANGED <<proc, accepted, recorded, dropped, abandoned,
                   calls, startOk, stopOk, stopTimedOut, panicked, fallback, aux>>

\* p.cancel()
StopCancel(c) ==
    /\ pc[c] = "stop_cancel"
    /\ ctxDone' = TRUE
    /\ Goto(c, "stop_close")
    /\ UNCHANGED <<started, jobQueue, closed, wg, wk, mu, hist>>

\* close(p.jobQueue); closing a closed channel panics
StopClose(c) ==
    /\ pc[c] = "stop_close"
    /\ IF closed
         THEN /\ panicked' = TRUE
              /\ mu' = Unlock(c)
              /\ Return(c, "panic")
              /\ UNCHANGED closed
         ELSE /\ closed' = TRUE
              /\ Goto(c, "stop_wait")
              /\ UNCHANGED <<mu, panicked>>
    /\ UNCHANGED <<started, jobQueue, ctxDone, wg, wk, accepted,
                   recorded, dropped, abandoned, calls, startOk,
                   stopBegun, stopOk, stopTimedOut, fallback, aux>>

\* case <-done: p.wg.Wait() has returned
WaitDone(n) == n = 0

StopDone(c) ==
    /\ pc[c] = "stop_wait"
    /\ WaitDone(wg)
    /\ started' = FALSE
    /\ stopOk' = TRUE
    /\ mu' = Unlock(c)
    /\ Return(c, "ok")
    /\ UNCHANGED <<jobQueue, closed, ctxDone, wg, wk, accepted,
                   recorded, dropped, abandoned, calls, startOk,
                   stopBegun, stopTimedOut, panicked, fallback, aux>>

\* case <-time.After(p.config.ShutdownTimeout): the timer of the waiting Stop
TimeoutReady_Never(l) == FALSE
TimeoutReady(l) == l = "stop_wait"

StopTimeout(c) ==
    /\ TimeoutReady(pc[c])
    /\ stopTimedOut' = TRUE
    /\ mu' = Unlock(c)
    /\ Return(c, "timeout")
    /\ UNCHANGED <<proc, accepted, recorded, dropped, abandoned,
                   calls, startOk, stopBegun, stopOk, panicked, fallback, aux>>

\* ---- SubmitClick ------------------------------------------------------------
SubmitBegins(c) ==
    /\ pc[c] = "idle"
    /\ calls < MaxCalls
    /\ calls' = calls + 1
    /\ \E e \in {Nil, calls + 1} : arg' = [arg EXCEPT ![c] = e]
    /\ pc' = [pc EXCEPT ![c] = "submit_lock"]
    /\ UNCHANGED <<proc, mu, ret, accepted, recorded, dropped, abandoned,
                   startOk, stopBegun, stopOk, stopTimedOut, panicked,
                   rd, fallback, clk, stats>>

CallSubmit(c) == SubmitBegins(c) /\ UNCHANGED pred

\* the same call, remembering which events had been accepted when it began
CallSubmitTracked(c) ==
    /\ SubmitBegins(c)
    /\ pred' = IF arg'[c] = Nil THEN pred
                ELSE [pred EXCEPT ![arg'[c]] = accepted]

\* if err := s.analyticsProcessor.SubmitClick(clickData); err != nil
FallbackNeeded_Always(r) == TRUE
FallbackNeeded(r) == r # "ok"

\* SubmitClick returns r: to its caller, or into RedirectAndRecord, which
\* returns the response after a success, goes on to the synchronous fallback
\* after an error and has no recover() for a panic
SubmitReturn(c, r) ==
    IF rd[c] = "none" \/ r = "panic"
      THEN Return(c, r)
      ELSE IF FallbackNeeded(r)
             THEN /\ pc' = [pc EXCEPT ![c] = "redir_fallback"]
                  /\ rd' = [rd EXCEPT ![c] = r]
                  /\ UNCHANGED <<ret, arg>>
             ELSE Return(c, "redirect_ok")

SubmitNotStarted(s) == ~s

\* p.mu.RLock(); if !p.started { return "processor not started" }
SubmitRLock(c) ==
    /\ pc[c] = "submit_lock"
    /\ CanRLock(mu)
    /\ IF SubmitNotStarted(started)
         THEN /\ SubmitReturn(c, "not_started")
              /\ UNCHANGED mu
         ELSE /\ Goto(c, "submit_select")
              /\ mu' = RLock(c)
    /\ UNCHANGED <<proc, hist>>

\* the cases of the select in SubmitClick that can proceed
SendReady_Unbounded(q, cl) == TRUE
SendReady(q, cl) == cl \/ Len(q) < BufferSize
DoneReady(d)     == d

Enqueue_AtHead(q, e) == <<e>> \o q
Enqueue(q, e) == Append(q, e)

\* case p.jobQueue <- clickData: the send, then clickData.Alias is read
SubmitSend(c) ==
    /\ pc[c] = "submit_select"
    /\ SendReady(jobQueue, closed)
    /\ IF closed
         THEN /\ panicked' = TRUE
              /\ SubmitReturn(c, "panic")
              /\ UNCHANGED <<jobQueue, accepted>>
         ELSE /\ jobQueue' = Enqueue(jobQueue, arg[c])
              /\ IF arg[c] = Nil
                   THEN /\ panicked' = TRUE
                        /\ SubmitReturn(c, "panic")
                        /\ UNCHANGED accepted
                   ELSE /\ accepted' = accepted \cup {arg[c]}
                        /\ SubmitReturn(c, "ok")
                        /\ UNCHANGED panicked
    /\ mu' = RUnlock(c)
    /\ UNCHANGED <<started, closed, ctxDone, wg, wk, recorded, dropped,
                   abandoned, calls, startOk, stopBegun, stopOk,
                   stopTimedOut, fallback, aux>>

\* case <-p.ctx.Done()
SubmitCtxDone(c) ==
    /\ pc[c] = "submit_select"
    /\ DoneReady(ctxDone)
    /\ mu' = RUnlock(c)
    /\ SubmitReturn(c, "shutting_down")
    /\ UNCHANGED <<proc, hist>>

\* default: the queue is full
SubmitDefault(c) ==
    /\ pc[c] = "submit_select"
    /\ ~SendReady(jobQueue, closed)
    /\ ~DoneReady(ctxDone)
    /\ mu' = RUnlock(c)
    /\ SubmitReturn(c, "queue_full")
    /\ UNCHANGED <<proc, hist>>

\* ---- worker -----------------------------------------------------------------
Exit(i) == /\ wk' = [wk EXCEPT ![i] = deadWorker]
           /\ wg' = wg - 1

RecvReady(q, cl) == Len(q) > 0 \/ cl

\* a receive takes the element at the head out of the channel
Dequeue_Peek(q) == q
Dequeue(q) == Tail(q)

\* the sentinel test of the worker: if clickData == nil { return }
IsSentinel(e) == e = Nil

\* case clickData := <-p.jobQueue
WorkerTakes(i) ==
    /\ wk[i].pc = "select"
    /\ RecvReady(jobQueue, closed)
    /\ IF Len(jobQueue) > 0
         THEN /\ jobQueue' = Dequeue(jobQueue)
              /\ IF IsSentinel(Head(jobQueue))
                   THEN Exit(i)
                   ELSE /\ wk' = [wk EXCEPT ![i] =
                                [pc |-> "call", ev |-> Head(jobQueue),
                                 attempt |-> 1, waited |-> 0,
                                 lastErr |-> "none", deadline |-> "armed"]]
                        /\ UNCHANGED wg
         ELSE /\ Exit(i)
              /\ UNCHANGED jobQueue
    /\ UNCHANGED <<started, closed, ctxDone, mu, pc, arg, ret, accepted,
                   recorded, dropped, abandoned, calls, startOk, stopBegun,
                   stopOk, stopTimedOut, panicked, rd, fallback, clk, stats>>

WorkerRecv(i) == WorkerTakes(i) /\ UNCHANGED pred

\* the same receive, forgetting the acceptance record of the event taken
WorkerRecvTracked(i) ==
    /\ WorkerTakes(i)
    /\ pred' = [e \in Events |->
                  IF Len(jobQueue) > 0 /\ e = Head(jobQueue) THEN {}
                  ELSE pred[e]]

\* case <-p.ctx.Done() of the worker loop
WorkerCtxDone(d) == d

WorkerShutdown(i) ==
    /\ wk[i].pc = "select"
    /\ WorkerCtxDone(ctxDone)
    /\ Exit(i)
    /\ UNCHANGED <<started, jobQueue, closed, ctxDone, mu, pc, arg, ret, rd,
                   hist>>

\* ---- processClickWithRetry / processClick -----------------------------------
\* results of RecordClickAdvanced: nil or an error; the retry loop tests
\* err == nil only, so one value stands for every error
StoreOutcomes == {"ok", "err"}
\* the same results with repository.ErrAliasNotFound told apart
NamedOutcomes == {"ok", "notfound", "err"}

\* ctx, cancel := context.WithTimeout(p.ctx, 30*time.Second): the context
\* handed to the store call is done when its parent is or its timer has fired
AttemptCtxDone(parentDone, timerFired) == parentDone \/ timerFired

LastAttempt_Never(a) == FALSE
LastAttempt(a) == a = RetryAttempts

\* 1 << n
RECURSIVE Shl1(_)
Shl1(n) == IF n <= 0 THEN 1 ELSE 2 * Shl1(n - 1)

\* delay := p.config.RetryDelay * time.Duration(1<<(attempt-1))
Delay_None(a) == 0
Delay(a) == RetryDelay * Shl1(a - 1)

\* the select of the backoff wait as it is entered: the timer of a positive
\* delay has not fired yet, so with p.ctx already cancelled only the
\* ctx.Done() case can proceed
OnlyDoneReady_Never(d, delay) == FALSE
OnlyDoneReady(d, delay) == d /\ delay > 0

\* cancel() right after processClick has returned: the attempt's timer is
\* released
Release_Leak(t) == t
Release(t) == "none"

\* p.storage.RecordClickAdvanced returns; a failure that is not the last
\* attempt enters the backoff select
StoreReturns(i, outcomes) ==
    /\ wk[i].pc = "call"
    /\ \E o \in outcomes :
         IF o = "ok"
           THEN /\ recorded' = recorded \cup {wk[i].ev}
                /\ wk' = [wk EXCEPT ![i] = idleWorker]
                /\ UNCHANGED <<dropped, abandoned>>
           ELSE IF LastAttempt(wk[i].attempt)
                  THEN /\ dropped' = dropped \cup {wk[i].ev}
                       /\ wk' = [wk EXCEPT ![i] = idleWorker]
                       /\ UNCHANGED <<recorded, abandoned>>
                  ELSE IF OnlyDoneReady(ctxDone, Delay(wk[i].attempt))
                         THEN /\ abandoned' = abandoned \cup {wk[i].ev}
                              /\ wk' = [wk EXCEPT ![i] = idleWorker]
                              /\ UNCHANGED <<recorded, dropped>>
                         ELSE /\ wk' = [wk EXCEPT
                                       ![i].pc = "backoff",
                                       ![i].lastErr = o,
                                       ![i].deadline = Release(wk[i].deadline)]
                              /\ UNCHANGED <<recorded, dropped, abandoned>>
    /\ UNCHANGED <<started, jobQueue, closed, ctxDone, wg, mu, pc, arg, ret,
                   accepted, calls, startOk,
                   stopBegun, stopOk, stopTimedOut, panicked, rd, fallback, aux>>

StoreReturn(i)      == StoreReturns(i, StoreOutcomes)
StoreReturnNamed(i) == StoreReturns(i, NamedOutcomes)

\* case <-time.After(delay): the delay has passed, next attempt
BackoffElapsed(i) ==
    /\ wk[i].pc = "backoff"
    /\ wk' = [wk EXCEPT ![i].pc = "call",
                        ![i].attempt = wk[i].attempt + 1,
                        ![i].waited = Delay(wk[i].attempt),
                        ![i].deadline = "armed"]
    /\ UNCHANGED <<started, jobQueue, closed, ctxDone, wg, mu, pc, arg, ret,
                   accepted, recorded, dropped, abandoned, calls, startOk,
                   stopBegun, stopOk, stopTimedOut, panicked, rd, fallback, aux>>

\* case <-p.ctx.Done() in the backoff wait: "worker shutdown during retry delay"
BackoffDoneReady_Never(d) == FALSE
BackoffDoneReady(d) == d

BackoffCancelled(i) ==
    /\ wk[i].pc = "backoff"
    /\ BackoffDoneReady(ctxDone)
    /\ abandoned' = abandoned \cup {wk[i].ev}
    /\ wk' = [wk EXCEPT ![i] = idleWorker]
    /\ UNCHANGED <<started, jobQueue, closed, ctxDone, wg, mu, pc, arg, ret,
                   accepted, recorded, dropped, calls, startOk,
                   stopBegun, stopOk, stopTimedOut, panicked, rd, fallback, aux>>

\* ---- RedirectAndRecord (gRPC handler) ---------------------------------------
\* if req.GetAlias() == "" { return InvalidArgument }; s.storage.GetLink;
\* the response and the ClickData are built and SubmitClick is called
LookupOutcomes == {"empty", "notfound", "err", "found"}
Found_Always(o) == TRUE
Found(o) == o = "found"

CallRedirect(c) ==
    /\ pc[c] = "idle"
    /\ calls < MaxCalls
    /\ calls' = calls + 1
    /\ \E o \in LookupOutcomes :
         IF Found(o)
           THEN /\ pc' = [pc EXCEPT ![c] = "submit_lock"]
                /\ rd' = [rd EXCEPT ![c] = o]
                /\ arg' = [arg EXCEPT ![c] = calls + 1]
                /\ UNCHANGED ret
           ELSE Return(c, CASE o = "empty"    -> "invalid_argument"
                            [] o = "notfound" -> "not_found"
                            [] OTHER          -> "internal")
    /\ UNCHANGED <<proc, mu, accepted, recorded, dropped, abandoned,
                   startOk, stopBegun, stopOk, stopTimedOut, panicked,
                   fallback, aux>>

\* fallbackErr := s.storage.RecordClickAdvanced(ctx, alias, "unknown", ...);
\* the error is logged only; return response, nil
RedirectFallback(c) ==
    /\ pc[c] = "redir_fallback"
    /\ fallback' = fallback \cup {[ev |-> arg[c], device |-> "unknown"]}
    /\ Return(c, "redirect_ok")
    /\ UNCHANGED <<proc, mu, accepted, recorded, dropped, abandoned, calls,
                   startOk, stopBegun, stopOk, stopTimedOut, panicked, aux>>

\* ---- GetStats -------------------------------------------------------------
CallGetStats(c) ==
    /\ pc[c] = "idle"
    /\ calls < MaxCalls
    /\ calls' = calls + 1
    /\ pc' = [pc EXCEPT ![c] = "stats_lock"]
    /\ UNCHANGED <<proc, mu, arg, ret, accepted, recorded, dropped, abandoned,
                   startOk, stopBegun, stopOk, stopTimedOut, panicked,
                   rd, fallback, aux>>

\* p.mu.RLock(); defer p.mu.RUnlock(); the map literal is built from the
\* fields while the read lock is held and no writer can be inside
GetStats(c) ==
    /\ pc[c] = "stats_lock"
    /\ CanRLock(mu)
    /\ stats' = [started        |-> started,
                 queue_length   |-> Len(jobQueue),
                 queue_capacity |-> BufferSize,
                 worker_count   |-> WorkerCount,
                 retry_attempts |-> RetryAttempts]
    /\ Return(c, "stats")
    /\ UNCHANGED <<proc, mu, accepted, recorded, dropped, abandoned, calls,
                   startOk, stopBegun, stopOk, stopTimedOut, panicked,
                   fallback, pred, clk>>

\* ---- the system ---------------------------------------------------------------
LifecycleStep(c) ==
    \/ CallStart(c) \/ StartLock(c) \/ StartSpawn(c)
    \/ CallStop(c) \/ StopLock(c) \/ StopCancel(c)
    \/ StopClose(c) \/ StopDone(c) \/ StopTimeout(c)

SubmitStep(c) ==
    \/ SubmitRLock(c)
    \/ SubmitSend(c) \/ SubmitCtxDone(c) \/ SubmitDefault(c)

CallerStep(c) ==
    \/ LifecycleStep(c)
    \/ CallSubmit(c) \/ SubmitStep(c)

WorkerStep(i) ==
    \/ WorkerRecv(i) \/ WorkerShutdown(i)
    \/ StoreReturn(i) \/ BackoffElapsed(i) \/ BackoffCancelled(i)

Next ==
    \/ \E c \in Callers : CallerStep(c)
    \/ \E i \in Workers : WorkerStep(i)

Spec == Init /\ [][Next]_vars

\* ---- fairness: goroutines are scheduled, store calls and timers return ----
CallerProgress(c) ==
    \/ StartLock(c) \/ StartSpawn(c)
    \/ StopLock(c) \/ StopCancel(c) \/ StopClose(c) \/ StopDone(c) \/ StopTimeout(c)
    \/ SubmitRLock(c) \/ SubmitSend(c) \/ SubmitCtxDone(c) \/ SubmitDefault(c)

Fairness ==
    /\ \A c \in Callers : WF_vars(CallerProgress(c))
    /\ \A i \in Workers : WF_vars(WorkerStep(i))

FairSpec == Init /\ [][Next]_vars /\ Fairness

\* the program with a store that never responds: callers and workers are
\* scheduled and timers fire, but no RecordClickAdvanced call returns
NextHanging ==
    \/ \E c \in Callers : CallerStep(c)
    \/ \E i \in Workers : WorkerRecv(i) \/ WorkerShutdown(i)

HangingStoreSpec ==
    /\ Init /\ [][NextHanging]_vars
    /\ \A c \in Callers : WF_vars(CallerProgress(c))
    /\ \A i \in Workers : WF_vars(WorkerRecv(i) \/ WorkerShutdown(i))

\* the processor while no Stop() is ever called
NextRunning ==
    \/ \E c \in Callers :
         \/ CallStart(c) \/ StartLock(c) \/ StartSpawn(c)
         \/ CallSubmit(c) \/ SubmitRLock(c) \/ SubmitSend(c) \/ SubmitDefault(c)
    \/ \E i \in Workers :
         \/ WorkerRecv(i) \/ StoreReturn(i) \/ BackoffElapsed(i)

RunningSpec == Init /\ [][NextRunning]_vars /\ Fairness

\* the same program with ErrAliasNotFound told apart from the other errors
NextNamed ==
    \/ \E c \in Callers : CallerStep(c)
    \/ \E i \in Workers :
         \/ WorkerRecv(i) \/ WorkerShutdown(i)
         \/ StoreReturnNamed(i) \/ BackoffElapsed(i) \/ BackoffCancelled(i)

NamedSpec == Init /\ [][NextNamed]_vars

\* the running processor with the acceptance order of the events remembered
NextOrder ==
    \/ \E c \in Callers :
         \/ CallStart(c) \/ StartLock(c) \/ StartSpawn(c)
         \/ CallSubmitTracked(c)
         \/ SubmitRLock(c) \/ SubmitSend(c) \/ SubmitDefault(c)
    \/ \E i \in Workers :
         \/ WorkerRecvTracked(i) \/ StoreReturn(i) \/ BackoffElapsed(i)

OrderSpec == Init /\ [][NextOrder]_vars

\* the processor fed by the redirect handler, as wired in cmd/backend/main.go
ServerStep(c) ==
    \/ LifecycleStep(c)
    \/ CallRedirect(c)
    \/ SubmitStep(c) \/ RedirectFallback(c)

NextServer ==
    \/ \E c \in Callers : ServerStep(c)
    \/ \E i \in Workers : WorkerStep(i)

ServerSpec == Init /\ [][NextServer]_vars

\* ---- lifecycle states of spec section 4.4, read off the program state ------
\* the processor with GetStats() called beside the other operations
NextStats ==
    \/ \E c \in Callers : CallerStep(c) \/ CallGetStats(c) \/ GetStats(c)
    \/ \E i \in Workers : WorkerStep(i)

StatsSpec == Init /\ [][NextStats]_vars

\* ---- the data of one click: strings are sequences of bytes ---------------
\* a *string is the empty sequence (nil) or a sequence holding the string
NilString == <<>>
Ptr(s)    == <<s>>
Deref(p)  == p[1]

UpperCase ==
    <<"A", "B", "C", "D", "E", "F", "G", "H", "I", "J", "K", "L", "M",
      "N", "O", "P", "Q", "R", "S", "T", "U", "V", "W", "X", "Y", "Z">>
LowerCase ==
    <<"a", "b", "c", "d", "e", "f", "g", "h", "i", "j", "k", "l", "m",
      "n", "o", "p", "q", "r", "s", "t", "u", "v", "w", "x", "y", "z">>

\* toLower: bytes 'A'..'Z' are shifted, every other byte is kept
toLower(s) ==
    [k \in 1..Len(s) |->
       IF \E n \in 1..Len(UpperCase) : UpperCase[n] = s[k]
         THEN LowerCase[CHOOSE n \in 1..Len(UpperCase) : UpperCase[n] = s[k]]
         ELSE s[k]]

\* processor.go: false for an empty str or substr, else the lowered scan
containsIgnoreCase(str, substr) ==
    /\ str # <<>>
    /\ substr # <<>>
    /\ LET strLower    == toLower(str)
           substrLower == toLower(substr)
       IN  \E k \in 0..(Len(strLower) - Len(substrLower)) :
             SubSeq(strLower, k + 1, k + Len(substrLower)) = substrLower

\* parser.go has its own copy of the scan, without the test for empty strings
uaContainsIgnoreCase(str, substr) ==
    LET strLower    == toLower(str)
        substrLower == toLower(substr)
    IN  \E k \in 0..(Len(strLower) - Len(substrLower)) :
          SubSeq(strLower, k + 1, k + Len(substrLower)) = substrLower

\* parser.go contains: strings of equal length are compared as they are
contains(str, substr) ==
    /\ str # <<>>
    /\ substr # <<>>
    /\ Len(str) >= Len(substr)
    /\ \/ str = substr
       \/ Len(str) > Len(substr) /\ uaContainsIgnoreCase(str, substr)

\* the string literals of processClick and determineDeviceType
sMobile  == <<"M", "o", "b", "i", "l", "e">>
sAndroid == <<"A", "n", "d", "r", "o", "i", "d">>
siPhone  == <<"i", "P", "h", "o", "n", "e">>
sTablet  == <<"T", "a", "b", "l", "e", "t">>
siPad    == <<"i", "P", "a", "d">>
sbot     == <<"b", "o", "t">>
sBot     == <<"B", "o", "t">>
sSpider  == <<"S", "p", "i", "d", "e", "r">>
siOS     == <<"i", "O", "S">>
sOther   == <<"O", "t", "h", "e", "r">>

botIndicators ==
    { <<"G", "o", "o", "g", "l", "e", "b", "o", "t">>,
      <<"B", "i", "n", "g", "b", "o", "t">>,
      <<"S", "l", "u", "r", "p">>,
      <<"D", "u", "c", "k", "D", "u", "c", "k", "B", "o", "t">>,
      <<"B", "a", "i", "d", "u", "s", "p", "i", "d", "e", "r">>,
      <<"Y", "a", "n", "d", "e", "x", "B", "o", "t">>,
      <<"f", "a", "c", "e", "b", "o", "o", "k", "e", "x", "t", "e", "r",
        "n", "a", "l", "h", "i", "t">>,
      <<"T", "w", "i", "t", "t", "e", "r", "b", "o", "t">>,
      <<"L", "i", "n", "k", "e", "d", "I", "n", "B", "o", "t">>,
      <<"W", "h", "a", "t", "s", "A", "p", "p">>,
      <<"T", "e", "l", "e", "g", "r", "a", "m">>,
      <<"S", "k", "y", "p", "e", "U", "r", "i", "P", "r", "e", "v", "i",
        "e", "w">>,
      <<"b", "o", "t">>,
      <<"c", "r", "a", "w", "l", "e", "r">>,
      <<"s", "p", "i", "d", "e", "r">>,
      <<"s", "c", "r", "a", "p", "e", "r">> }
mobileDevices ==
    { <<"i", "P", "h", "o", "n", "e">>,
      <<"A", "n", "d", "r", "o", "i", "d">>,
      <<"B", "l", "a", "c", "k", "B", "e", "r", "r", "y">>,
      <<"W", "i", "n", "d", "o", "w", "s", " ", "P", "h", "o", "n", "e">>,
      <<"M", "o", "b", "i", "l", "e">>,
      <<"P", "h", "o", "n", "e">> }
tabletDevices ==
    { <<"i", "P", "a", "d">>,
      <<"T", "a", "b", "l", "e", "t">>,
      <<"K", "i", "n", "d", "l", "e">>,
      <<"S", "u", "r", "f", "a", "c", "e">> }
mobileOS ==
    { <<"i", "O", "S">>,
      <<"A", "n", "d", "r", "o", "i", "d">>,
      <<"W", "i", "n", "d", "o", "w", "s", " ", "P", "h", "o", "n", "e">>,
      <<"B", "l", "a", "c", "k", "B", "e", "r", "r", "y", " ", "O", "S">>,
      <<"F", "i", "r", "e", "f", "o", "x", " ", "O", "S">>,
      <<"S", "a", "i", "l", "f", "i", "s", "h", " ", "O", "S">> }
desktopOS ==
    { <<"W", "i", "n", "d", "o", "w", "s">>,
      <<"M", "a", "c", " ", "O", "S", " ", "X">>,
      <<"m", "a", "c", "O", "S">>,
      <<"L", "i", "n", "u", "x">>,
      <<"U", "b", "u", "n", "t", "u">>,
      <<"C", "h", "r", "o", "m", "e", " ", "O", "S">>,
      <<"F", "r", "e", "e", "B", "S", "D">>,
      <<"O", "p", "e", "n", "B", "S", "D">>,
      <<"N", "e", "t", "B", "S", "D">> }

isBot(client, userAgent) ==
    \E indicator \in botIndicators :
      contains(client.UserAgent, indicator) \/ contains(userAgent, indicator)

isMobile(deviceFamily) ==
    \E device \in mobileDevices : contains(deviceFamily, device)

isTablet(deviceFamily) ==
    \E device \in tabletDevices : contains(deviceFamily, device)

isMobileOS(osFamily) == \E os \in mobileOS : contains(osFamily, os)

isTabletOS(osFamily, userAgent) ==
    IF contains(osFamily, siOS)
      THEN contains(userAgent, siPad)
      ELSE IF contains(osFamily, sAndroid)
             THEN ~contains(userAgent, sMobile)
             ELSE FALSE

isDesktopOS(osFamily) == \E os \in desktopOS : contains(osFamily, os)

determineDeviceType(client, userAgent) ==
    IF isBot(client, userAgent) THEN "bot"
    ELSE IF /\ client.Device # <<>>
            /\ client.Device # sOther
            /\ isTablet(client.Device) THEN "tablet"
    ELSE IF /\ client.Device # <<>>
            /\ client.Device # sOther
            /\ isMobile(client.Device) THEN "mobile"
    ELSE IF isMobileOS(client.Os)
           THEN IF isTabletOS(client.Os, userAgent) THEN "tablet" ELSE "mobile"
    ELSE IF isDesktopOS(client.Os) THEN "desktop"
    ELSE "unknown"

\* Parser.ParseUserAgent(userAgent).DeviceType; client is what the uap-go
\* parser returns for this string
ParseUserAgent(client, userAgent) ==
    IF userAgent = <<>> THEN "unknown"
    ELSE determineDeviceType(client, userAgent)

\* the else branch of processClick, taken when GetGlobalParser() is nil
FallbackDeviceType_TabletFirst(ua) ==
    IF containsIgnoreCase(ua, sTablet) \/ containsIgnoreCase(ua, siPad)
      THEN "tablet"
    ELSE IF \/ containsIgnoreCase(ua, sMobile)
            \/ containsIgnoreCase(ua, sAndroid)
            \/ containsIgnoreCase(ua, siPhone)
      THEN "mobile"
    ELSE IF \/ containsIgnoreCase(ua, sbot)
            \/ containsIgnoreCase(ua, sBot)
            \/ containsIgnoreCase(ua, sSpider)
      THEN "bot"
    ELSE "desktop"

FallbackDeviceType(ua) ==
    IF \/ containsIgnoreCase(ua, sMobile)
       \/ containsIgnoreCase(ua, sAndroid)
       \/ containsIgnoreCase(ua, siPhone)
      THEN "mobile"
    ELSE IF containsIgnoreCase(ua, sTablet) \/ containsIgnoreCase(ua, siPad)
      THEN "tablet"
    ELSE IF \/ containsIgnoreCase(ua, sbot)
            \/ containsIgnoreCase(ua, sBot)
            \/ containsIgnoreCase(ua, sSpider)
      THEN "bot"
    ELSE "desktop"

\* deviceType as processClick computes it from the click and the global parser
DeviceTypeOf(clickData, globalParser, client) ==
    IF clickData.UserAgent = NilString THEN "unknown"
    ELSE IF globalParser # "nil"
           THEN ParseUserAgent(client, Deref(clickData.UserAgent))
           ELSE FallbackDeviceType(Deref(clickData.UserAgent))

\* the arguments of p.storage.RecordClickAdvanced
RecordClickAdvanced(clickData, deviceType) ==
    [alias      |-> clickData.Alias,
     deviceType |-> deviceType,
     ipAddress  |-> clickData.IPAddress,
     userAgent  |-> clickData.UserAgent,
     referer    |-> clickData.Referer,
     clickedAt  |-> clickData.ClickedAt]

\* processClickWithRetry hands the one *ClickData to every attempt
ClickOfAttempt_NoAgentOnRetry(clickData, attempt) ==
    IF attempt > 1 THEN [clickData EXCEPT !.UserAgent = NilString]
    ELSE clickData
ClickOfAttempt(clickData, attempt) == clickData

\* ---- the inputs of the data-level specification ---------------------------
\* User-Agent headers a request can carry
UserAgents ==
    { <<"M", "o", "z", "i", "l", "l", "a", "/", "5", ".", "0", " ", "(",
        "i", "P", "h", "o", "n", "e", ";", " ", "C", "P", "U", " ", "i",
        "P", "h", "o", "n", "e", " ", "O", "S", " ", "1", "4", "_", "0",
        " ", "l", "i", "k", "e", " ", "M", "a", "c", " ", "O", "S", " ",
        "X", ")">>,
      <<"M", "o", "z", "i", "l", "l", "a", "/", "5", ".", "0", " ", "(",
        "i", "P", "h", "o", "n", "e", ";", " ", "C", "P", "U", " ", "i",
        "P", "h", "o", "n", "e", " ", "O", "S", " ", "6", "_", "0", ")",
        " ", "(", "c", "o", "m", "p", "a", "t", "i", "b", "l", "e", ";",
        " ", "G", "o", "o", "g", "l", "e", "b", "o", "t", "/", "2", ".",
        "1", ")">>,
      <<"M", "o", "z", "i", "l", "l", "a", "/", "5", ".", "0", " ", "(",
        "i", "P", "a", "d", ";", " ", "C", "P", "U", " ", "O", "S", " ",
        "1", "4", "_", "0", " ", "l", "i", "k", "e", " ", "M", "a", "c",
        " ", "O", "S", " ", "X", ")", " ", "M", "o", "b", "i", "l", "e",
        "/", "1", "5", "E", "1", "4", "8">>,
      <<"M", "o", "z", "i", "l", "l", "a", "/", "5", ".", "0", " ", "(",
        "L", "i", "n", "u", "x", ";", " ", "A", "n", "d", "r", "o", "i",
        "d", " ", "1", "0", ";", " ", "S", "M", "-", "T", "5", "1", "0",
        ")", " ", "S", "a", "f", "a", "r", "i", "/", "5", "3", "7", ".",
        "3", "6">>,
      <<"M", "o", "z", "i", "l", "l", "a", "/", "5", ".", "0", " ", "(",
        "L", "i", "n", "u", "x", ";", " ", "A", "n", "d", "r", "o", "i",
        "d", " ", "1", "0", ";", " ", "P", "i", "x", "e", "l", " ", "3",
        ")", " ", "M", "o", "b", "i", "l", "e", " ", "S", "a", "f", "a",
        "r", "i", "/", "5", "3", "7", ".", "3", "6">>,
      <<"M", "o", "z", "i", "l", "l", "a", "/", "5", ".", "0", " ", "(",
        "W", "i", "n", "d", "o", "w", "s", " ", "N", "T", " ", "1", "0",
        ".", "0", ";", " ", "W", "i", "n", "6", "4", ";", " ", "x", "6",
        "4", ")">>,
      <<"M", "o", "z", "i", "l", "l", "a", "/", "5", ".", "0", " ", "(",
        "W", "i", "n", "d", "o", "w", "s", " ", "N", "T", " ", "1", "0",
        ".", "0", ";", " ", "T", "a", "b", "l", "e", "t", " ", "P", "C",
        " ", "2", ".", "0", ")">>,
      <<"T", "A", "B", "L", "E", "T", " ", "b", "r", "o", "w", "s", "e",
        "r", " ", "f", "o", "r", " ", "r", "o", "b", "o", "t", "s">>,
      <<"c", "u", "r", "l", "/", "8", ".", "0", " ", "r", "o", "b", "o",
        "t">>,
      <<"S", "P", "I", "D", "E", "R">>,
      <<"I", "P", "H", "O", "N", "E">>,
      <<>> }

\* families the uap-go parser can report for a string ("" and "Other" when
\* no expression of regexes.yaml matches)
UserAgentFamilies == {sOther, <<"G", "o", "o", "g", "l", "e", "b", "o", "t">>}
OsFamilies        == {<<>>, sOther, siOS, sAndroid, <<"W", "i", "n", "d", "o", "w", "s">>}
DeviceFamilies    == {<<>>, sOther, siPhone, siPad}
Clients ==
    [UserAgent : UserAgentFamilies, Os : OsFamilies, Device : DeviceFamilies]

\* the *ClickData values: the pointer fields are nil or set
ClickDatas ==
    { [Alias     |-> a,
       IPAddress |-> IF set THEN Ptr("203.0.113.7") ELSE NilString,
       UserAgent |-> u,
       Referer   |-> IF set THEN Ptr("https://example.com/") ELSE NilString,
       ClickedAt |-> IF set THEN Ptr("2024-01-01T00:00:00Z") ELSE NilString] :
      a \in {"abc123", "xyz789"}, set \in BOOLEAN,
      u \in {NilString} \cup {Ptr(s) : s \in UserAgents} }

NoCall == [alias |-> "", deviceType |-> "", ipAddress |-> NilString,
           userAgent |-> NilString, referer |-> NilString,
           clickedAt |-> NilString]

\* a worker has taken an accepted click; InitGlobalParser ran in main before
\* the processor was created and left the parser set or nil
InitClick ==
    /\ InitProcessor
    /\ clk \in [phase : {"attempt"}, clickData : ClickDatas, client : Clients,
                globalParser : {"nil", "ready"}, attempt : {1},
                call : {NoCall}, first : {""}]

others == <<proc, mu, pc, arg, ret, rd, accepted, recorded, dropped,
            abandoned, calls, startOk, stopBegun, stopOk, stopTimedOut,
            panicked, fallback, pred, stats>>

\* processClick up to the call of RecordClickAdvanced
ProcessClick ==
    /\ clk.phase = "attempt"
    /\ LET clickData  == ClickOfAttempt(clk.clickData, clk.attempt)
           deviceType == DeviceTypeOf(clickData, clk.globalParser, clk.client)
       IN  clk' = [clk EXCEPT
                     !.phase = "call",
                     !.call  = RecordClickAdvanced(clickData, deviceType),
                     !.first = IF clk.attempt = 1 THEN deviceType
                               ELSE clk.first]
    /\ UNCHANGED others

\* RecordClickAdvanced returns: the click is recorded, dropped after the last
\* attempt, or retried after the backoff
ClickStoreReturns ==
    /\ clk.phase = "call"
    /\ \E o \in StoreOutcomes :
         clk' = [clk EXCEPT !.phase =
                   IF o = "ok" THEN "done"
                   ELSE IF LastAttempt(clk.attempt) THEN "dropped"
                   ELSE "backoff"]
    /\ UNCHANGED others

ClickBackoffElapsed ==
    /\ clk.phase = "backoff"
    /\ clk' = [clk EXCEPT !.phase = "attempt", !.attempt = clk.attempt + 1]
    /\ UNCHANGED others

NextClick == ProcessClick \/ ClickStoreReturns \/ ClickBackoffElapsed

ClickSpec == InitClick /\ [][NextClick]_vars


\* the processor as cmd/backend/main.go drives it: the owning goroutine calls
\* Start() once and, after the request handlers have finished, Stop() once;
\* the handlers call SubmitClick with a ClickData they have built
Owner == 1

NextDrain ==
    \/ /\ startOk = 0
       /\ CallStart(Owner)
    \/ StartLock(Owner) \/ StartSpawn(Owner)
    \/ /\ ~stopBegun
       /\ \A c \in Callers \ {Owner} : pc[c] = "idle"
       /\ CallStop(Owner)
    \/ StopLock(Owner) \/ StopCancel(Owner) \/ StopClose(Owner)
    \/ StopDone(Owner)
    \/ \E c \in Callers \ {Owner} :
         \/ /\ pc[Owner] = "idle"
            /\ ~stopBegun
            /\ CallSubmit(c)
            /\ arg'[c] # Nil
         \/ SubmitRLock(c) \/ SubmitSend(c) \/ SubmitDefault(c)
    \/ \E i \in Workers : WorkerStep(i)

\* the worker steps that need neither a new event nor a timer
DrainProgress(i) ==
    \/ WorkerRecv(i) \/ WorkerShutdown(i)
    \/ StoreReturn(i) \/ BackoffCancelled(i)

\* Stop() and the workers are scheduled and store calls return; no backoff
\* timer has to fire, no event has to arrive, and ShutdownTimeout is longer
\* than the drain
DrainSpec ==
    /\ Init /\ [][NextDrain]_vars
    /\ WF_vars(StopLock(Owner) \/ StopCancel(Owner) \/ StopClose(Owner)
                 \/ StopDone(Owner))
    /\ \A i \in Workers : WF_vars(DrainProgress(i))

Running    == started /\ ~stopBegun
LiveWorkers == {i \in Workers : wk[i].pc # "dead"}
Processed  == recorded \cup dropped
Queued     == {jobQueue[k] : k \in 1..Len(jobQueue)}

\* ---- claims -----------------------------------------------------------------

\* C1: whenever Stop() has returned success (and nothing has panicked), every
\* event accepted by SubmitClick has been recorded by the store or reported
\* dropped after RetryAttempts failed attempts.
CleanShutdownLosesNothing ==
    (stopOk /\ ~panicked) => accepted \subseteq Processed

\* C2: while the processor stays Running and store calls return, every
\* accepted event is eventually recorded or reported dropped.
AcceptedEventuallyProcessed ==
    \A e \in Events :
        (e \in accepted /\ ~stopBegun) ~> (e \in Processed \/ stopBegun)

\* C3: SubmitClick never suspends: a SubmitClick call in progress is never
\* kept waiting by a Stop() that is waiting for the workers to drain, that is,
\* on a worker, a store call or the shutdown timeout.
SubmitNeverSuspends ==
    \A c \in Callers :
        pc[c] = "submit_lock"
        => \/ CanRLock(mu)
           \/ \A d \in Callers : mu.w = d => pc[d] # "stop_wait"

\* C4: in Running state SubmitClick of an event appends it at the tail and
\* returns success when the queue has free capacity, and returns queue-full
\* leaving queue, lifecycle state and workers unchanged when the queue holds
\* BufferSize events; in both cases no store call is made by the step.
SubmitEnqueuesOrRejects ==
    [][\A c \in Callers :
         (pc[c] = "submit_select" /\ pc'[c] = "idle" /\ Running /\ arg[c] # Nil)
         => /\ IF Len(jobQueue) < BufferSize
                 THEN /\ jobQueue' = Append(jobQueue, arg[c])
                      /\ ret' = "ok"
                 ELSE /\ jobQueue' = jobQueue
                      /\ ret' = "queue_full"
            /\ UNCHANGED <<started, closed, ctxDone, wg, wk>>
            /\ UNCHANGED <<recorded, dropped, abandoned>>]_vars

C4Witness ==
    /\ Running
    /\ Len(jobQueue) = BufferSize
    /\ ret = "queue_full"
    /\ accepted # {}

\* C5: before Start() has succeeded and once a Stop() has begun its shutdown
\* sequence, every SubmitClick returns a not-running error and enqueues
\* nothing.
SubmitRejectedUnlessRunning ==
    [][\A c \in Callers :
         (pc[c] \in {"submit_lock", "submit_select"} /\ pc'[c] = "idle"
            /\ (startOk = 0 \/ stopBegun))
         => /\ ret' \in {"not_started", "shutting_down"}
            /\ jobQueue' = jobQueue]_vars

\* C6: the job queue never holds more than BufferSize events.
QueueBounded == Len(jobQueue) \in 0..BufferSize

C6Witness ==
    /\ Len(jobQueue) = BufferSize
    /\ \E c \in Callers : pc[c] = "submit_select"

\* C7: while Running, exactly WorkerCount worker goroutines are live.
WorkersLiveWhileRunning ==
    Running => Cardinality(LiveWorkers) = WorkerCount

\* C8: among the Start() calls on a processor no Stop() has touched, exactly
\* one returns success, launching exactly WorkerCount workers; every other
\* one returns already-started and changes nothing.
StartOnce ==
    [][\A c \in Callers :
         (pc[c] \in {"start_lock", "start_spawn"} /\ pc'[c] = "idle" /\ ~stopBegun)
         => IF ret' = "ok"
              THEN /\ startOk = 0 /\ wg = 0 /\ LiveWorkers = {}
                   /\ wg' = WorkerCount
                   /\ \A i \in Workers : wk'[i].pc = "select"
              ELSE /\ ret' = "already_started"
                   /\ startOk = 1 /\ started
                   /\ UNCHANGED <<proc, hist>>]_vars

C8Witness ==
    /\ ~stopBegun
    /\ startOk = 1
    /\ ret = "already_started"

\* C9: once a Stop() has begun, no Start() returns success and the processor
\* never becomes started again.
NoRestart ==
    [][stopBegun => (startOk' = startOk /\ (~started => ~started'))]_vars

\* C10: a Stop() called before any Start() succeeded, or after a Stop() that
\* returned success, returns not-running and changes no state.
StopWhenNotRunningIsNoop ==
    [][\A c \in Callers :
         (pc[c] \in {"stop_lock", "stop_cancel", "stop_close", "stop_wait"}
            /\ pc'[c] # pc[c] /\ (startOk = 0 \/ stopOk))
         => /\ pc'[c] = "idle" /\ ret' = "not_started"
            /\ UNCHANGED <<proc, hist>>]_vars

\* C11: once a Stop() has begun the shutdown sequence (in particular after a
\* Stop() that returned the shutdown-timeout error) every further Stop()
\* returns not-running, so the sequence is executed at most once.
ShutdownSequenceOnce ==
    [][\A c \in Callers :
         (pc[c] = "stop_lock" /\ pc'[c] # "stop_lock" /\ stopBegun)
         => (pc'[c] = "idle" /\ ret' = "not_started")]_vars

\* C12: Stop() always returns: when the workers have not all exited by the
\* time the shutdown timer fires (a store call may never respond), Stop()
\* returns the timeout error instead of waiting for them indefinitely.
StopAlwaysReturns ==
    \A c \in Callers : (pc[c] = "stop_wait") ~> (pc[c] = "idle")

C12Witness ==
    /\ ret = "timeout"
    /\ stopTimedOut
    /\ \E i \in Workers : wk[i].pc = "call"

RetryBounded ==
    [][\A i \in Workers :
         /\ wk'[i].attempt <= RetryAttempts
         /\ wk'[i].pc \in {"call", "backoff"} => wk'[i].ev \notin recorded'
         /\ (wk[i].pc = "call" /\ wk[i].attempt = RetryAttempts
               /\ wk'[i] # wk[i])
            => /\ wk'[i].pc = "select"
               /\ wk[i].ev \in (recorded' \cup dropped')
         /\ wk[i].ev \in (dropped' \ dropped)
            => wk[i].attempt = RetryAttempts]_vars

C14Witness ==
    /\ dropped # {}
    /\ recorded # {}
    /\ \E i \in Workers : wk[i].pc = "call" /\ wk[i].attempt = RetryAttempts

NotFoundNotRetried ==
    \A i \in Workers :
        wk[i].lastErr = "notfound" => wk[i].pc \notin {"backoff", "call"}

\* C17: the context handed to a store call in progress is cancelled only by
\* the attempt's own timeout, never by the shutdown signal of Stop().
StopLeavesCallAlone ==
    [][\A i \in Workers :
         (wk[i].pc = "call" /\ wk'[i] = wk[i])
         => \A timerFired \in BOOLEAN :
                AttemptCtxDone(ctxDone', timerFired)
                  = AttemptCtxDone(ctxDone, timerFired)]_vars

\* C18: once Stop() has fired the shutdown signal, a worker whose attempt in
\* progress returns a failure gives the event up in the backoff wait (or
\* reports it dropped after the last attempt) and no further attempt is
\* ever started for the event.
NoRetryAfterShutdown ==
    [][\A i \in Workers :
         /\ (wk[i].pc = "call" /\ ctxDone /\ wk'[i] # wk[i]
               /\ wk[i].ev \notin recorded')
            => /\ wk'[i].pc = "select"
               /\ wk[i].ev \in (abandoned' \cup dropped')
         /\ wk'[i].pc \in {"call", "backoff"}
            => wk'[i].ev \notin abandoned']_vars

C18Witness ==
    /\ ctxDone
    /\ abandoned # {}
    /\ recorded = {} /\ dropped = {}
    /\ \A i \in Workers : wk[i].pc \in {"select", "dead"}

\* C19: in a RedirectAndRecord of an existing alias, a SubmitClick that
\* returns success is followed by no synchronous store write; a SubmitClick
\* that returns an error enqueues nothing and is followed by exactly one
\* RecordClickAdvanced call with device category "unknown" and the request's
\* data; a click is never both enqueued and written by the fallback.
OneAnalyticsPath ==
    [][\A c \in Callers :
         (rd[c] # "none" /\ pc'[c] # pc[c])
         => LET e == arg[c]
                Written(F) == {w \in F : w.ev = e}
            IN  /\ (pc[c] = "submit_select" /\ e \in accepted')
                   => /\ pc'[c] = "idle" /\ ret' = "redirect_ok"
                      /\ Written(fallback') = {}
                /\ pc'[c] = "redir_fallback"
                   => /\ e \notin accepted'
                      /\ jobQueue' = jobQueue
                      /\ Written(fallback') = {}
                /\ pc[c] = "redir_fallback"
                   => /\ Written(fallback) = {}
                      /\ Written(fallback') = {[ev |-> e, device |-> "unknown"]}
                      /\ pc'[c] = "idle" /\ ret' = "redirect_ok"
                /\ (pc'[c] = "idle" /\ ret' = "redirect_ok")
                   => (e \in accepted') # (Written(fallback') # {})]_vars

C19Witness ==
    /\ ret = "redirect_ok"
    /\ fallback # {}
    /\ accepted # {}
    /\ \A w \in fallback : w.ev \notin accepted /\ w.device = "unknown"

\* C20: every RedirectAndRecord of an existing alias ends by returning the
\* response with no error, whatever the outcome of SubmitClick and of the
\* fallback write and whatever the lifecycle state of the processor.
RedirectNeverFails ==
    [][\A c \in Callers :
         (rd[c] # "none" /\ pc[c] # "idle" /\ pc'[c] = "idle")
         => ret' = "redirect_ok"]_vars

\* C21: events leave the queue in the order they were accepted: when a
\* worker dequeues event B, no event whose SubmitClick had returned success
\* before B's SubmitClick began is still in the queue; and a worker takes an
\* event only when it holds none, beginning with the first attempt for it.
DequeuedInAcceptanceOrder ==
    [][\A i \in Workers :
         (wk'[i].ev # Nil /\ wk'[i].ev # wk[i].ev)
         => /\ pred[wk'[i].ev] \cap Queued = {}
            /\ wk[i].pc = "select" /\ wk[i].ev = Nil
            /\ wk'[i].pc = "call" /\ wk'[i].attempt = 1
            /\ wk'[i].ev = Head(jobQueue)]_vars

C21Witness ==
    \E i \in Workers : \E e \in Queued \ {Nil} :
        /\ wk[i].ev # Nil
        /\ wk[i].ev \in pred[e]
        /\ recorded # {}

\* C22: every accepted event is consumed at most once: the event a worker
\* holds is held by no other worker, is no longer in the queue and has not
\* been finished before, and the queue holds no event twice.
ConsumedAtMostOnce ==
    /\ \A i \in Workers :
         wk[i].ev # Nil
         => /\ \A j \in Workers \ {i} : wk[j].ev # wk[i].ev
            /\ wk[i].ev \notin Queued
            /\ wk[i].ev \notin (recorded \cup dropped \cup abandoned)
            /\ wk[i].ev \in accepted
    /\ \A k, l \in 1..Len(jobQueue) :
         (k # l /\ jobQueue[k] # Nil) => jobQueue[k] # jobQueue[l]

C22Witness ==
    /\ \A i \in Workers : wk[i].pc \in {"call", "backoff"}
    /\ recorded # {}

\* C27: attempt and backoff are strictly sequential within a worker: the
\* per-attempt deadline is armed exactly while the attempt's store call is
\* in progress, a new attempt starts with no older deadline left, the
\* backoff wait is entered only from a returned attempt, and a worker holds
\* one event exactly while it is in a store call or in a backoff wait.
AttemptThenBackoff ==
    [][\A i \in Workers :
         /\ wk'[i].pc \in {"dead", "select", "call", "backoff"}
         /\ (wk'[i].deadline = "armed") <=> (wk'[i].pc = "call")
         /\ (wk'[i].ev # Nil) <=> (wk'[i].pc \in {"call", "backoff"})
         /\ (wk'[i].pc = "call" /\ wk'[i] # wk[i])
            => (wk[i].deadline = "none" /\ wk[i].pc \in {"select", "backoff"})
         /\ (wk'[i].pc = "backoff" /\ wk'[i] # wk[i])
            => (wk[i].pc = "call" /\ wk'[i].ev = wk[i].ev
                  /\ wk'[i].attempt = wk[i].attempt)]_vars

C27Witness ==
    \E i \in Workers :
        /\ wk[i].pc = "call"
        /\ wk[i].attempt > 1
        /\ wk[i].deadline = "armed"

\* C28: a RedirectAndRecord that rejects its request (empty alias, link not
\* found, lookup error) returns the error at once and produces no analytics:
\* SubmitClick is not called, no fallback write is made and the processor,
\* its queue included, is unchanged; only a request whose link was found
\* ever reaches SubmitClick or the fallback.
RejectedRedirectLeavesNoTrace ==
    [][\A c \in Callers :
         /\ (pc[c] = "idle" /\ pc'[c] = "idle" /\ calls' # calls
               /\ \A d \in Callers \ {c} : pc'[d] = pc[d])
            => /\ ret' \in {"invalid_argument", "not_found", "internal"}
               /\ UNCHANGED <<proc, mu, accepted, fallback, rd>>
         /\ rd'[c] # "none"
            => /\ rd'[c] \in {"found", "not_started", "shutting_down",
                              "queue_full"}
               /\ pc'[c] \in {"submit_lock", "submit_select",
                              "redir_fallback"}]_vars

C28Witness ==
    /\ ret \in {"invalid_argument", "not_found", "internal"}
    /\ started
    /\ accepted # {}
    /\ fallback = {}

\* C29: no interleaving of Start(), Stop() and SubmitClick() calls raises a
\* channel panic: SubmitClick never takes the send case on the closed job
\* queue and Stop() never closes the job queue a second time.
NoChannelPanic ==
    [][\A c \in Callers :
         (pc[c] \in {"submit_select", "stop_close"} /\ closed
            /\ pc'[c] # pc[c])
         => ret' # "panic"]_vars

\* C30: GetStats() is read-only and agrees with the lifecycle: the call changes
\* no processor state, reports the current queue length and the configured
\* capacity, worker count and retry attempts, and reports started = true
\* exactly when the processor is Running (false before Start(), after a
\* successful Stop() and after a Stop() that timed out).
StatsAgreeWithLifecycle ==
    [][\A c \in Callers :
         (pc[c] = "stats_lock" /\ pc'[c] = "idle")
         => /\ UNCHANGED <<proc, mu>>
            /\ stats'.queue_length = Len(jobQueue)
            /\ stats'.queue_capacity = BufferSize
            /\ stats'.worker_count = WorkerCount
            /\ stats'.retry_attempts = RetryAttempts
            /\ stats'.started = Running]_vars

\* C26: with the classifier unavailable (GetGlobalParser() is nil) a click
\* without user agent is stored as "unknown"; otherwise, case-insensitively
\* and in this order, a user agent containing "mobile", "android" or "iphone"
\* is stored as "mobile", else one containing "tablet" or "ipad" as "tablet",
\* else one containing "bot" or "spider" as "bot", else as "desktop"; the
\* category is always one of unknown, mobile, tablet, bot, desktop.
FallbackCategory ==
    (clk.phase # "none" /\ clk.call # NoCall /\ clk.globalParser = "nil")
    => LET ua == clk.clickData.UserAgent
           has(w) ==
             \E k \in 0..(Len(Deref(ua)) - Len(w)) :
               \A j \in 1..Len(w) : toLower(<<Deref(ua)[k + j]>>) = <<w[j]>>
           expected ==
             IF ua = NilString THEN "unknown"
             ELSE IF \/ has(<<"m", "o", "b", "i", "l", "e">>)
                     \/ has(<<"a", "n", "d", "r", "o", "i", "d">>)
                     \/ has(<<"i", "p", "h", "o", "n", "e">>) THEN "mobile"
             ELSE IF \/ has(<<"t", "a", "b", "l", "e", "t">>)
                     \/ has(<<"i", "p", "a", "d">>) THEN "tablet"
             ELSE IF \/ has(<<"b", "o", "t">>)
                     \/ has(<<"s", "p", "i", "d", "e", "r">>) THEN "bot"
             ELSE "desktop"
       IN  /\ clk.call.deviceType = expected
           /\ clk.call.deviceType \in
                {"unknown", "mobile", "tablet", "bot", "desktop"}

C26Witness ==
    /\ clk.phase = "done"
    /\ clk.globalParser = "nil"
    /\ clk.clickData.UserAgent # NilString
    /\ containsIgnoreCase(Deref(clk.clickData.UserAgent), siPad)
    /\ clk.call.deviceType = "mobile"

iPhoneClickStoredAsMobile ==
    (/\ clk.phase = "done"
     /\ clk.clickData.Alias = "abc123"
     /\ clk.clickData.UserAgent # NilString
     /\ clk.client = [UserAgent |-> sOther, Os |-> siOS, Device |-> siPhone]
     /\ LET ua == Deref(clk.clickData.UserAgent)
        IN  \E k \in 0..(Len(ua) - Len(siPhone)) :
              SubSeq(ua, k + 1, k + Len(siPhone)) = siPhone)
    => clk.call = [alias      |-> "abc123",
                   deviceType |-> "mobile",
                   ipAddress  |-> clk.clickData.IPAddress,
                   userAgent  |-> clk.clickData.UserAgent,
                   referer    |-> clk.clickData.Referer,
                   clickedAt  |-> clk.clickData.ClickedAt]

====
